---- MODULE Spec2Model ----
(***************************************************************************)
(* A model of package gla (src/gla.go): helpers that turn Go images and    *)
(* typed buffers into the pointer / stride / format arguments of the       *)
(* OpenGL upload and binding calls, then issue those native calls.         *)
(*                                                                         *)
(* The package keeps no state of its own.  The state of the model is the   *)
(* part of the caller's GL context the package writes (the pixel-store     *)
(* parameters and the bound texture's contents), the native calls issued   *)
(* by one call into the package, and that call's arguments and outcome.    *)
(* A behaviour is one call into the package from some context.  A Go panic *)
(* (an index out of range, a nil dereference, an explicit panic) is the    *)
(* outcome "panic": the call does not return and issues no further native  *)
(* call.                                                                   *)
(***************************************************************************)
EXTENDS Integers, Sequences, FiniteSets, TLC

VARIABLES
    ctx,      \* the GL context: [align, rowlen, tex]
    before,   \* the GL context at the entry of the call
    calls,    \* the native calls the call has issued, in order
    last      \* the call: [op, args, res, out]

vars == <<ctx, before, calls, last>>

-----------------------------------------------------------------------------
(* Bounds of the model.                                                    *)

\* width and height of an uncompressed image's bounds and of dest: 0..MaxExtent
MaxExtent == 2
\* Stride of an uncompressed image: 0..MaxStride
MaxStride == 8
\* len(Pix) of an uncompressed image: 0..MaxPixLen
MaxPixLen == 1
\* width and height in pixels of a block-compressed image: 0..MaxDxtDim
MaxDxtDim == 6
\* Stride in blocks, and rows of Pix, of a block-compressed image
MaxDxtBlocks == 3
\* length of a slice or array handed to the buffer functions: 0..MaxLen
MaxLen == 2
\* length of an array witness or array field: up to MaxArrayLen
MaxArrayLen == 3
\* fields of a struct witness: 1..MaxFields; dummy_index: 0..MaxFields
MaxFields == 2

-----------------------------------------------------------------------------
(* image.Rectangle, as the package uses it.                                *)

Rect(x0, y0, x1, y1) ==
    [Min |-> [X |-> x0, Y |-> y0], Max |-> [X |-> x1, Y |-> y1]]

Dx(r) == r.Max.X - r.Min.X

Dy(r) == r.Max.Y - r.Min.Y

Empty(r) == r.Min.X >= r.Max.X \/ r.Min.Y >= r.Max.Y

\* The rectangles of width and height 0..n, at the origin and off it.
Rects(n) == { Rect(o, o, o + w, o + h) : o \in {0, 1}, w \in 0..n, h \in 0..n }

-----------------------------------------------------------------------------
(* getImageInfo: the uncompressed pixel-format resolver.                   *)

\* The type switch of getImageInfo: per concrete image type, the elements
\* per pixel (epp) and the GL format and component type.
PixelFormats ==
    [ Alpha    |-> [epp |-> 1, Format |-> "ALPHA",     Type |-> "UNSIGNED_BYTE"],
      Alpha16  |-> [epp |-> 2, Format |-> "ALPHA",     Type |-> "UNSIGNED_SHORT"],
      Gray     |-> [epp |-> 1, Format |-> "LUMINANCE", Type |-> "UNSIGNED_BYTE"],
      Gray16   |-> [epp |-> 2, Format |-> "LUMINANCE", Type |-> "UNSIGNED_SHORT"],
      RGBA     |-> [epp |-> 4, Format |-> "RGBA",      Type |-> "UNSIGNED_BYTE"],
      RGBA64   |-> [epp |-> 8, Format |-> "RGBA",      Type |-> "UNSIGNED_SHORT"],
      BGRA     |-> [epp |-> 4, Format |-> "BGRA",      Type |-> "UNSIGNED_BYTE"],
      BGRA4444 |-> [epp |-> 1, Format |-> "BGRA",
                    Type |-> "UNSIGNED_SHORT_4_4_4_4_REV"],
      BGRA5551 |-> [epp |-> 1, Format |-> "BGRA",
                    Type |-> "UNSIGNED_SHORT_1_5_5_5_REV"],
      BGR565   |-> [epp |-> 1, Format |-> "RGB",
                    Type |-> "UNSIGNED_SHORT_5_6_5"] ]

\* The zero imageInfo.  Data names the buffer whose first byte it addresses
\* ("Pix": the image's own; "RGBA.Pix", "pix": one the resolver allocated);
\* pix is the contents of the buffer getCompressedImageInfo allocated.
NoInfo ==
    [Data |-> "nil", RowLength |-> 0, Length |-> 0, Format |-> "0", Type |-> "0",
     pix |-> <<>>]

\* image.NewRGBA(r): Stride 4*Dx, len(Pix) 4*Dx*Dy.
NewRGBA(r) == [Rect |-> r, Stride |-> 4 * Dx(r), PixLen |-> 4 * Dx(r) * Dy(r)]

\* res is "ok" (it returns info) or "panic".  Index(0) of an empty Pix panics
\* (reflect: slice index out of range), before the stride check is reached.
getImageInfo(i) ==
    IF i.kind \in DOMAIN PixelFormats
    THEN LET f == PixelFormats[i.kind] IN
         IF i.PixLen = 0 THEN [res |-> "panic", info |-> NoInfo]
         ELSE IF i.Stride % f.epp # 0 THEN [res |-> "panic", info |-> NoInfo]
         ELSE [res |-> "ok",
               info |-> [NoInfo EXCEPT !.Data = "Pix",
                                       !.RowLength = i.Stride \div f.epp,
                                       !.Format = f.Format,
                                       !.Type = f.Type]]
    ELSE LET img == NewRGBA(i.Rect) IN
         IF img.PixLen = 0 THEN [res |-> "panic", info |-> NoInfo]
         ELSE [res |-> "ok",
               info |-> [NoInfo EXCEPT !.Data = "RGBA.Pix",
                                       !.RowLength = img.Stride \div 4,
                                       !.Format = "RGBA",
                                       !.Type = "UNSIGNED_BYTE"]]

-----------------------------------------------------------------------------
(* The native calls and their effect on the context.                       *)

glPixelStorei(pname, param) ==
    [fn |-> "glPixelStorei", pname |-> pname, param |-> param]

glTexImage2D(bounds, info) ==
    [fn |-> "glTexImage2D", width |-> Dx(bounds), height |-> Dy(bounds),
     format |-> info.Format, type |-> info.Type, data |-> info.Data]

glTexSubImage2D(dest, info) ==
    [fn |-> "glTexSubImage2D", xoffset |-> dest.Min.X, yoffset |-> dest.Min.Y,
     width |-> Dx(dest), height |-> Dy(dest),
     format |-> info.Format, type |-> info.Type, data |-> info.Data]

\* The context after one native call.
Native(c, call) ==
    IF call.fn = "glPixelStorei"
    THEN IF call.pname = "UNPACK_ALIGNMENT"
         THEN [c EXCEPT !.align = call.param]
         ELSE [c EXCEPT !.rowlen = call.param]
    ELSE IF call.fn \in {"glTexImage2D", "glTexSubImage2D", "glCompressedTexImage2D"}
    THEN [c EXCEPT !.tex = call]
    ELSE c

RECURSIVE NativeAll(_, _)
NativeAll(c, cs) ==
    IF cs = <<>> THEN c ELSE NativeAll(Native(c, Head(cs)), Tail(cs))

\* UploadCalls with the alignment put back to GL's default after the upload.
UploadCallsRestoring(info, upload) ==
    << glPixelStorei("UNPACK_ALIGNMENT", 1),
       glPixelStorei("UNPACK_ROW_LENGTH", info.RowLength),
       upload,
       glPixelStorei("UNPACK_ALIGNMENT", 4) >>

\* The three native calls of an uncompressed upload, in the order issued.
UploadCalls(info, upload) ==
    << glPixelStorei("UNPACK_ALIGNMENT", 1),
       glPixelStorei("UNPACK_ROW_LENGTH", info.RowLength),
       upload >>

-----------------------------------------------------------------------------
(* The texture upload entry points.                                        *)

\* DestTooLarge with && for ||.
DestTooLargeBoth(dest, bounds) == Dx(dest) > Dx(bounds) /\ Dy(dest) > Dy(bounds)

\* The guard of TexSubImage2DFromImage.
DestTooLarge(dest, bounds) == Dx(dest) > Dx(bounds) \/ Dy(dest) > Dy(bounds)

\* The outcome of TexImage2DFromImage(target, level, internalformat, border, img).
TexImage2D(img) ==
    LET bounds == img.Rect IN
    IF Empty(bounds) THEN [res |-> "ok", info |-> NoInfo, calls |-> <<>>]
    ELSE LET r == getImageInfo(img) IN
         IF r.res = "panic" THEN [res |-> "panic", info |-> NoInfo, calls |-> <<>>]
         ELSE [res |-> "ok", info |-> r.info,
               calls |-> UploadCalls(r.info, glTexImage2D(bounds, r.info))]

\* The outcome of TexSubImage2DFromImage(target, level, dest, img).
TexSubImage2D(dest, img) ==
    LET bounds == img.Rect IN
    IF DestTooLarge(dest, bounds) THEN [res |-> "ok", info |-> NoInfo, calls |-> <<>>]
    ELSE LET r == getImageInfo(img) IN
         IF r.res = "panic" THEN [res |-> "panic", info |-> NoInfo, calls |-> <<>>]
         ELSE [res |-> "ok", info |-> r.info,
               calls |-> UploadCalls(r.info, glTexSubImage2D(dest, r.info))]

\* The images handed to the uncompressed entry points: the ten types of the
\* type switch, and image.NRGBA for the types outside it.
Kinds == DOMAIN PixelFormats \cup {"NRGBA"}

\* Of Pix the resolver reads only whether it is empty.
Images ==
    [kind : Kinds, Rect : Rects(MaxExtent), Stride : 0..MaxStride, PixLen : 0..MaxPixLen]

Dests == Rects(MaxExtent)

\* The contexts a call may start from: GL's initial pixel-store state, and
\* one a caller has changed.
Contexts ==
    { [align |-> 4, rowlen |-> 0, tex |-> [fn |-> "none"]],
      [align |-> 1, rowlen |-> 3, tex |-> [fn |-> "glTexImage2D"]] }

NoCall == [op |-> "none", args |-> <<>>, res |-> "none", out |-> <<>>]

\* One call: its argument record, and its outcome [res, info, calls].
Call(op, args, r) ==
    /\ last' = [op |-> op, args |-> args, res |-> r.res, out |-> r.info]
    /\ calls' = r.calls
    /\ ctx' = NativeAll(ctx, r.calls)
    /\ UNCHANGED before

TexImage2DFromImage ==
    /\ last = NoCall
    /\ \E img \in Images :
        Call("TexImage2DFromImage", [img |-> img], TexImage2D(img))

TexSubImage2DFromImage ==
    /\ last = NoCall
    /\ \E dest \in Dests, img \in Images :
        Call("TexSubImage2DFromImage", [dest |-> dest, img |-> img],
             TexSubImage2D(dest, img))

-----------------------------------------------------------------------------
(* getCompressedImageInfo: the compressed pixel-format resolver.           *)

\* The type switch of getCompressedImageInfo.
BlockFormats ==
    [ Dxt1 |-> [blockdim |-> 4, blocksize |-> 8,
                Format |-> "COMPRESSED_RGBA_S3TC_DXT1"],
      Dxt3 |-> [blockdim |-> 4, blocksize |-> 16,
                Format |-> "COMPRESSED_RGBA_S3TC_DXT3"],
      Dxt5 |-> [blockdim |-> 4, blocksize |-> 16,
                Format |-> "COMPRESSED_RGBA_S3TC_DXT5"] ]

\* The byte at (0-based) offset j of img.Pix: a pattern of non-zero bytes, so
\* that a copied byte tells where it came from and differs from the zero a
\* freshly made buffer holds.
SrcByte(j) == (j % 255) + 1

\* make([]uint8, n)
Make(n) == [k \in 1..n |-> 0]

\* copy(pix[lo:lo+n], data[from:...]) with n bytes copied; offsets 0-based.
CopyInto(pix, lo, from, n) ==
    [k \in 1..Len(pix) |->
        IF k - 1 >= lo /\ k - 1 < lo + n THEN SrcByte(from + (k - 1 - lo)) ELSE pix[k]]

Min2(a, b) == IF a < b THEN a ELSE b

\* The loop of getCompressedImageInfo from iteration i on: rows is h/blockdim.
\* data[lo:hi] panics when hi exceeds the length of data (Pix is taken to have
\* no spare capacity); a copy shorter than sub_stride is the error "cannot
\* copy subimage".
RECURSIVE CopyRows(_, _, _, _, _, _, _)
CopyRows(pix, i, rows, sub_stride, stride, data_offset, dataLen) ==
    IF i >= rows THEN [res |-> "ok", pix |-> pix]
    ELSE IF data_offset + (i + 1) * stride > dataLen
         THEN [res |-> "panic", pix |-> <<>>]
    ELSE LET c == Min2(sub_stride, stride) IN
         IF c # sub_stride THEN [res |-> "error", pix |-> <<>>]
         ELSE CopyRows(CopyInto(pix, i * sub_stride, data_offset + i * stride, c),
                       i + 1, rows, sub_stride, stride, data_offset, dataLen)

\* res is "ok", "error" (it returns an error) or "panic".
getCompressedImageInfo(i) ==
    IF i.kind \notin DOMAIN BlockFormats THEN [res |-> "error", info |-> NoInfo]
    ELSE
    LET f == BlockFormats[i.kind]
        blockdim == f.blockdim
        blocksize == f.blocksize
        stride == i.Stride
        w == Dx(i.Rect)
        h == Dy(i.Rect)
        sub_stride == ((w + (blockdim - 1)) \div blockdim) * blocksize
    IN
    IF sub_stride # stride
    THEN LET data_xoff == i.Rect.Min.X + ((blockdim - 1) \div blockdim) * blocksize
             data_yoff == i.Rect.Min.Y + ((blockdim - 1) \div blockdim) * stride
             data_offset == data_yoff + data_xoff
             pix == Make(((w + (blockdim - 1)) \div blockdim)
                          * ((h + (blockdim - 1)) \div blockdim) * blocksize)
             r == CopyRows(pix, 0, h \div blockdim, sub_stride, stride,
                           data_offset, i.PixLen)
         IN
         IF r.res # "ok" THEN [res |-> r.res, info |-> NoInfo]
         ELSE IF Len(r.pix) = 0 THEN [res |-> "panic", info |-> NoInfo]
         ELSE [res |-> "ok",
               info |-> [NoInfo EXCEPT !.Data = "pix", !.Length = Len(r.pix),
                                       !.Format = f.Format, !.pix = r.pix]]
    ELSE IF i.PixLen = 0 THEN [res |-> "panic", info |-> NoInfo]
         ELSE [res |-> "ok",
               info |-> [NoInfo EXCEPT !.Data = "Pix", !.Length = i.PixLen,
                                       !.Format = f.Format]]

glCompressedTexImage2D(bounds, info) ==
    [fn |-> "glCompressedTexImage2D", width |-> Dx(bounds), height |-> Dy(bounds),
     format |-> info.Format, imageSize |-> info.Length, data |-> info.Data]

\* CompressedUploadCalls with the resolver's error not looked at.
CompressedUploadCallsUnchecked(bounds, r) ==
    << glCompressedTexImage2D(bounds, r.info) >>

\* The native calls of CompressedTexImage2DFromImage once the resolver has
\* returned r: none when it returned an error.
CompressedUploadCalls(bounds, r) ==
    IF r.res = "error" THEN <<>> ELSE << glCompressedTexImage2D(bounds, r.info) >>

\* The outcome of CompressedTexImage2DFromImage(target, level, border, img).
CompressedTexImage2D(img) ==
    LET bounds == img.Rect IN
    IF Empty(bounds) THEN [res |-> "ok", info |-> NoInfo, calls |-> <<>>]
    ELSE LET r == getCompressedImageInfo(img) IN
         IF r.res = "panic" THEN [res |-> "panic", info |-> NoInfo, calls |-> <<>>]
         ELSE [res |-> "ok", info |-> r.info,
               calls |-> CompressedUploadCalls(bounds, r)]

\* The block-compressed images: bounds of 0..MaxDxtDim pixels each way at a
\* block-aligned origin, a Stride of 1..MaxDxtBlocks blocks and a Pix of
\* 0..MaxDxtBlocks rows of Stride bytes.
DxtImages ==
    { [kind |-> k, Rect |-> Rect(x, y, x + w, y + h),
       Stride |-> n * BlockFormats[k].blocksize,
       PixLen |-> n * BlockFormats[k].blocksize * m] :
         k \in DOMAIN BlockFormats, x \in {0, 4}, y \in {0, 4},
         w \in 0..MaxDxtDim, h \in 0..MaxDxtDim,
         n \in 1..MaxDxtBlocks, m \in 0..MaxDxtBlocks }

CompressedTexImage2DFromImage ==
    /\ last = NoCall
    /\ \E img \in DxtImages \cup Images :
        Call("CompressedTexImage2DFromImage", [img |-> img],
             CompressedTexImage2D(img))

-----------------------------------------------------------------------------
(* Buffer functions.                                                       *)

\* The zero sliceInfo.
NoSlice == [Ptr |-> "nil", Size |-> 0, Length |-> 0]

\* The sources handed to BufferData and BufferSubData.  form is the source's
\* reflect kind: "invalid" (the untyped nil), "ptr", "slice", or "value" (any
\* other kind).  A pointer points at an array of len elements (elem "array")
\* or at one value (elem "value"); size is the byte size of one element.
ElemSizes == {1, 4, 12}

Sources ==
    { [form |-> "invalid", isNil |-> TRUE, elem |-> "none", len |-> 0, size |-> 0] }
    \cup [form : {"ptr"}, isNil : BOOLEAN, elem : {"array"}, len : 0..MaxLen,
          size : ElemSizes]
    \cup [form : {"ptr"}, isNil : BOOLEAN, elem : {"value"}, len : {1},
          size : ElemSizes]
    \cup [form : {"slice"}, isNil : {TRUE}, elem : {"array"}, len : {0},
          size : ElemSizes]
    \cup [form : {"slice"}, isNil : {FALSE}, elem : {"array"}, len : 0..MaxLen,
          size : ElemSizes]
    \cup [form : {"value"}, isNil : {FALSE}, elem : {"value"}, len : {1},
          size : ElemSizes]

\* res is "ok", "error" or "panic": val.Type() panics on the zero Value that
\* reflect.ValueOf(nil) returns, and Index(0) panics on a length of 0.
sliceToUintptr(slice) ==
    IF slice.form = "invalid" THEN [res |-> "panic", data |-> NoSlice]
    ELSE IF slice.form = "ptr"
    THEN IF slice.isNil THEN [res |-> "error", data |-> NoSlice]
         ELSE IF slice.elem = "array"
         THEN IF slice.len = 0 THEN [res |-> "panic", data |-> NoSlice]
              ELSE [res |-> "ok",
                    data |-> [Ptr |-> "&elem0", Size |-> slice.size,
                              Length |-> slice.len]]
         ELSE [res |-> "ok",
               data |-> [Ptr |-> "&value", Size |-> slice.size, Length |-> 1]]
    ELSE IF slice.form = "slice"
    THEN IF slice.isNil THEN [res |-> "error", data |-> NoSlice]
         ELSE IF slice.len = 0 THEN [res |-> "panic", data |-> NoSlice]
         ELSE [res |-> "ok",
               data |-> [Ptr |-> "&elem0", Size |-> slice.size,
                         Length |-> slice.len]]
    ELSE [res |-> "error", data |-> NoSlice]

glBufferData(data) ==
    [fn |-> "glBufferData", size |-> data.Size * data.Length, data |-> data.Ptr]

glBufferSubData(start_index, data) ==
    [fn |-> "glBufferSubData", offset |-> start_index * data.Size,
     size |-> data.Size * data.Length, data |-> data.Ptr]

\* The outcome of a buffer function that issues `call` on success.
BufferUpload(r, call) ==
    IF r.res # "ok" THEN [res |-> r.res, info |-> r.data, calls |-> <<>>]
    ELSE [res |-> "ok", info |-> r.data, calls |-> << call >>]

BufferData ==
    /\ last = NoCall
    /\ \E slice \in Sources :
        LET r == sliceToUintptr(slice) IN
        Call("BufferData", [slice |-> slice],
             BufferUpload(r, glBufferData(r.data)))

BufferSubData ==
    /\ last = NoCall
    /\ \E slice \in Sources, start_index \in {0, 2} :
        LET r == sliceToUintptr(slice) IN
        Call("BufferSubData", [slice |-> slice, start_index |-> start_index],
             BufferUpload(r, glBufferSubData(start_index, r.data)))

-----------------------------------------------------------------------------
(* Vertex attrib functions.                                                *)

\* sliceFieldToGL: the Go kinds that bind as a vertex attribute.
GLTypes ==
    [ int8 |-> "BYTE", int16 |-> "SHORT", int32 |-> "INT",
      uint8 |-> "UNSIGNED_BYTE", uint16 |-> "UNSIGNED_SHORT",
      uint32 |-> "UNSIGNED_INT", float32 |-> "FLOAT", float64 |-> "DOUBLE" ]

sliceFieldToGL(kind) ==
    IF kind \in DOMAIN GLTypes
    THEN [err |-> FALSE, gltype |-> GLTypes[kind]]
    ELSE [err |-> TRUE, gltype |-> "0"]

\* unsafe.Sizeof of the scalar kinds of the model (amd64); a scalar is
\* aligned to its size, at most 8.
ScalarSize ==
    [ int8 |-> 1, int16 |-> 2, int32 |-> 4, uint8 |-> 1, uint16 |-> 2,
      uint32 |-> 4, float32 |-> 4, float64 |-> 8,
      bool |-> 1, int64 |-> 8, string |-> 16 ]

\* A type is [kind, elem, len, fields]: a scalar kind; "array" of len elements
\* of kind elem; "struct" of fields, each a scalar or an array; "nil", the type
\* of the untyped nil.
Scalar(k) == [kind |-> k, elem |-> "", len |-> 0]

Array(k, n) == [kind |-> "array", elem |-> k, len |-> n]

Type(f, fields) ==
    [kind |-> f.kind, elem |-> f.elem, len |-> f.len, fields |-> fields]

\* reflect.Type.Size and alignment of a scalar or array.
SizeOf(f) == IF f.kind = "array" THEN f.len * ScalarSize[f.elem] ELSE ScalarSize[f.kind]

AlignOf(f) ==
    LET s == IF f.kind = "array" THEN ScalarSize[f.elem] ELSE ScalarSize[f.kind]
    IN IF s > 8 THEN 8 ELSE s

AlignUp(n, a) == ((n + a - 1) \div a) * a

\* reflect.StructField.Offset of field i (1-based here) of the struct.
RECURSIVE FieldOffset(_, _)
FieldOffset(fields, i) ==
    IF i = 1 THEN 0
    ELSE AlignUp(FieldOffset(fields, i - 1) + SizeOf(fields[i - 1]), AlignOf(fields[i]))

RECURSIVE MaxAlign(_, _)
MaxAlign(fields, i) ==
    IF i = 0 THEN 1
    ELSE LET m == MaxAlign(fields, i - 1)
             a == AlignOf(fields[i])
         IN IF a > m THEN a ELSE m

\* reflect.Type.Size of a type.
TypeSize(t) ==
    IF t.kind = "struct"
    THEN IF t.fields = <<>> THEN 0
         ELSE LET n == Len(t.fields) IN
              AlignUp(FieldOffset(t.fields, n) + SizeOf(t.fields[n]),
                      MaxAlign(t.fields, n))
    ELSE SizeOf(t)

\* The zero attribInfo.
NoAttrib == [Gltype |-> "0", Elements |-> 0, Offset |-> 0, Stride |-> 0]

\* Layout with an array bound as one element.
LayoutOneElement(f) ==
    IF f.kind = "array"
    THEN [kind |-> f.elem, Elements |-> 1]
    ELSE [kind |-> f.kind, Elements |-> 1]

\* The component kind and element count of a scalar or array type: the
\* array / non-array cases of sliceAttrib, for a struct field and for the
\* witness itself.
Layout(f) ==
    IF f.kind = "array"
    THEN [kind |-> f.elem, Elements |-> f.len]
    ELSE [kind |-> f.kind, Elements |-> 1]

\* res is "ok", "error" or "panic": t.Size() on the nil Type that
\* reflect.TypeOf(nil) returns panics, and so does t.Field with an index that
\* is no field.
sliceAttrib(dummy, dummy_index) ==
    IF dummy.kind = "nil" THEN [res |-> "panic", data |-> NoAttrib]
    ELSE IF dummy.kind = "struct" /\ dummy_index + 1 \notin DOMAIN dummy.fields
    THEN [res |-> "panic", data |-> NoAttrib]
    ELSE
    LET Stride == TypeSize(dummy)
        l == IF dummy.kind = "struct"
             THEN Layout(dummy.fields[dummy_index + 1])
             ELSE Layout(dummy)
        Offset == IF dummy.kind = "struct"
                  THEN FieldOffset(dummy.fields, dummy_index + 1)
                  ELSE 0
        g == sliceFieldToGL(l.kind)
    IN
    IF g.err THEN [res |-> "error", data |-> NoAttrib]
    ELSE [res |-> "ok",
          data |-> [Gltype |-> g.gltype, Elements |-> l.Elements,
                    Offset |-> Offset, Stride |-> Stride]]

\* A gl*Pointer call with the resolved layout.
glPointer(fn, data) ==
    [fn |-> fn, size |-> data.Elements, type |-> data.Gltype,
     stride |-> data.Stride, pointer |-> data.Offset]

\* The outcome of a binding function that issues `fn` on success.
Bind(r, fn) ==
    IF r.res # "ok" THEN [res |-> r.res, info |-> r.data, calls |-> <<>>]
    ELSE [res |-> "ok", info |-> r.data, calls |-> << glPointer(fn, r.data) >>]

\* VertexAttribSlice also passes the attribute index and the normalized flag.
BindAttrib(r, index, normalized) ==
    IF r.res # "ok" THEN [res |-> r.res, info |-> r.data, calls |-> <<>>]
    ELSE [res |-> "ok", info |-> r.data,
          calls |-> << [fn |-> "glVertexAttribPointer", index |-> index,
                        size |-> r.data.Elements, type |-> r.data.Gltype,
                        normalized |-> normalized, stride |-> r.data.Stride,
                        pointer |-> r.data.Offset] >>]

\* NormalSlice also wants three elements.
BindNormal(r) ==
    IF r.res # "ok" THEN [res |-> r.res, info |-> r.data, calls |-> <<>>]
    ELSE IF r.data.Elements # 3 THEN [res |-> "error", info |-> r.data, calls |-> <<>>]
    ELSE [res |-> "ok", info |-> r.data,
          calls |-> << [fn |-> "glNormalPointer", type |-> r.data.Gltype,
                        stride |-> r.data.Stride, pointer |-> r.data.Offset] >>]

\* The witnesses: nil, the scalars, the arrays of scalars, and the structs of
\* 1..MaxFields fields.
ScalarKinds == DOMAIN ScalarSize

FieldTypes ==
    { Scalar(k) : k \in {"uint8", "int16", "float32", "float64", "bool"} }
    \cup { Array(k, n) : k \in {"uint8", "float32", "bool"}, n \in 1..MaxArrayLen }

RECURSIVE FieldSeqs(_)
FieldSeqs(n) ==
    IF n = 0 THEN { <<>> }
    ELSE LET shorter == FieldSeqs(n - 1) IN
         shorter \cup { Append(fs, f) : fs \in { s \in shorter : Len(s) = n - 1 },
                                        f \in FieldTypes }

Witnesses ==
    { [kind |-> "nil", elem |-> "", len |-> 0, fields |-> <<>>] }
    \cup { Type(Scalar(k), <<>>) : k \in ScalarKinds }
    \cup { Type(Array(k, n), <<>>) : k \in ScalarKinds, n \in 0..MaxArrayLen }
    \cup { [kind |-> "struct", elem |-> "", len |-> 0, fields |-> fs] :
             fs \in FieldSeqs(MaxFields) \ { <<>> } }

VertexAttribSlice ==
    /\ last = NoCall
    /\ \E normalized \in BOOLEAN, dummy \in Witnesses, dummy_index \in 0..MaxFields :
        Call("VertexAttribSlice",
             [normalized |-> normalized, dummy |-> dummy, dummy_index |-> dummy_index],
             BindAttrib(sliceAttrib(dummy, dummy_index), 1, normalized))

VertexSlice ==
    /\ last = NoCall
    /\ \E dummy \in Witnesses, dummy_index \in 0..MaxFields :
        Call("VertexSlice", [dummy |-> dummy, dummy_index |-> dummy_index],
             Bind(sliceAttrib(dummy, dummy_index), "glVertexPointer"))

NormalSlice ==
    /\ last = NoCall
    /\ \E dummy \in Witnesses, dummy_index \in 0..MaxFields :
        Call("NormalSlice", [dummy |-> dummy, dummy_index |-> dummy_index],
             BindNormal(sliceAttrib(dummy, dummy_index)))

ColorSlice ==
    /\ last = NoCall
    /\ \E dummy \in Witnesses, dummy_index \in 0..MaxFields :
        Call("ColorSlice", [dummy |-> dummy, dummy_index |-> dummy_index],
             Bind(sliceAttrib(dummy, dummy_index), "glColorPointer"))

TexCoordSlice ==
    /\ last = NoCall
    /\ \E dummy \in Witnesses, dummy_index \in 0..MaxFields :
        Call("TexCoordSlice", [dummy |-> dummy, dummy_index |-> dummy_index],
             Bind(sliceAttrib(dummy, dummy_index), "glTexCoordPointer"))

-----------------------------------------------------------------------------
(* The claims.  Each is a predicate of the state after the call: last holds *)
(* the call's arguments and outcome, calls the native calls it issued, and  *)
(* before and ctx the GL context at its entry and after it.                 *)

TextureOps ==
    {"TexImage2DFromImage", "TexSubImage2DFromImage", "CompressedTexImage2DFromImage"}

BufferOps == {"BufferData", "BufferSubData"}

AttribOps ==
    {"VertexAttribSlice", "VertexSlice", "NormalSlice", "ColorSlice", "TexCoordSlice"}

\* C1: a call TexSubImage2DFromImage(target, level, dest, img) with
\* dest.Dx() > img.Bounds().Dx() or dest.Dy() > img.Bounds().Dy() returns
\* having issued no native call, and the context (UNPACK_ALIGNMENT,
\* UNPACK_ROW_LENGTH, texture contents) is as it was before the call.
C1_OversizedDestIsNoOp ==
    ( /\ last.op = "TexSubImage2DFromImage"
      /\ \/ Dx(last.args.dest) > Dx(last.args.img.Rect)
         \/ Dy(last.args.dest) > Dy(last.args.img.Rect) )
    => /\ last.res = "ok"
       /\ calls = <<>>
       /\ ctx = before

\* A non-empty image that would upload, a dest wider than it but no taller,
\* and a context a caller had set up.
C1_Witness ==
    /\ last.op = "TexSubImage2DFromImage"
    /\ ~Empty(last.args.img.Rect)
    /\ Dx(last.args.dest) > Dx(last.args.img.Rect)
    /\ Dy(last.args.dest) <= Dy(last.args.img.Rect)
    /\ getImageInfo(last.args.img).res = "ok"
    /\ before.rowlen = 3
    /\ ctx = before

\* C2: a call of TexImage2DFromImage or TexSubImage2DFromImage that issues
\* the native upload issues exactly: UNPACK_ALIGNMENT := 1, UNPACK_ROW_LENGTH
\* := the row length the resolver computed, the upload, and nothing else; and
\* when it returns the context holds UNPACK_ALIGNMENT = 1 and
\* UNPACK_ROW_LENGTH = that row length.
C2_UploadCallSequence ==
    ( /\ last.op \in {"TexImage2DFromImage", "TexSubImage2DFromImage"}
      /\ \E k \in DOMAIN calls : calls[k].fn \in {"glTexImage2D", "glTexSubImage2D"} )
    => LET rowLength == getImageInfo(last.args.img).info.RowLength IN
       /\ Len(calls) = 3
       /\ calls[1] = [fn |-> "glPixelStorei", pname |-> "UNPACK_ALIGNMENT",
                      param |-> 1]
       /\ calls[2] = [fn |-> "glPixelStorei", pname |-> "UNPACK_ROW_LENGTH",
                      param |-> rowLength]
       /\ calls[3].fn = IF last.op = "TexImage2DFromImage"
                        THEN "glTexImage2D" ELSE "glTexSubImage2D"
       /\ last.res = "ok"
       /\ ctx.align = 1
       /\ ctx.rowlen = rowLength

\* An upload of a non-empty image into a non-empty dest, from GL's initial
\* pixel-store state (4, 0), that leaves (1, 2).
C2_Witness ==
    /\ last.op = "TexSubImage2DFromImage"
    /\ ~Empty(last.args.img.Rect)
    /\ ~Empty(last.args.dest)
    /\ Len(calls) = 3
    /\ calls[3].fn = "glTexSubImage2D"
    /\ before.align = 4
    /\ before.rowlen = 0
    /\ ctx.align = 1
    /\ ctx.rowlen = 2

\* C3: for each of the three texture upload entry points and every dest, a
\* call whose source image has empty bounds returns normally (no abort) and
\* issues no native call.
C3_EmptyBoundsIsNoOp ==
    (last.op \in TextureOps /\ Empty(last.args.img.Rect))
    => /\ last.res = "ok"
       /\ calls = <<>>

\* The element count of a source of BufferData: 0 for a nil or empty one, 1
\* for a pointer to one value, N for a sequence of N elements.
ElementCount(slice) ==
    IF slice.form = "invalid" \/ slice.isNil THEN 0
    ELSE IF slice.form = "ptr" /\ slice.elem = "value" THEN 1
    ELSE slice.len

\* C4: for every source of BufferData or BufferSubData (untyped nil, nil
\* pointer, nil slice, empty slice, pointer to a zero-length array, pointer
\* to one value, slice of N >= 1), a source of element count 0 is rejected
\* with a returned error, without aborting and before any native call; and a
\* descriptor returned without error has element count >= 1 (1 for a pointer
\* to one value, N for N elements).
C4_EmptySourceRejected ==
    (last.op \in BufferOps /\ last.args.slice.form # "value")
    => /\ ElementCount(last.args.slice) = 0
            => (last.res = "error" /\ calls = <<>>)
       /\ last.res = "ok"
            => ( /\ last.out.Length >= 1
                 /\ last.out.Length = ElementCount(last.args.slice) )

\* The witness has a resolved scalar component kind: it is not nil, and a
\* struct's dummy_index names one of its fields.
Resolves(dummy, dummy_index) ==
    /\ dummy.kind # "nil"
    /\ dummy.kind = "struct" => dummy_index + 1 \in DOMAIN dummy.fields

\* The resolved scalar component kind: the array's element, the selected
\* field (or its element), or the scalar itself.
Component(dummy, dummy_index) ==
    LET f == IF dummy.kind = "struct" THEN dummy.fields[dummy_index + 1] ELSE dummy
    IN IF f.kind = "array" THEN f.elem ELSE f.kind

NumericKinds ==
    {"int8", "int16", "int32", "uint8", "uint16", "uint32", "float32", "float64"}

\* C5: for each attribute binding function and every witness, if the
\* witness is nil or its resolved scalar component type is not one of int8,
\* int16, int32, uint8, uint16, uint32, float32, float64, the function
\* returns an error, does not abort, and issues no native binding call.
C5_BadWitnessIsError ==
    ( /\ last.op \in AttribOps
      /\ \/ last.args.dummy.kind = "nil"
         \/ /\ Resolves(last.args.dummy, last.args.dummy_index)
            /\ Component(last.args.dummy, last.args.dummy_index) \notin NumericKinds )
    => /\ last.res = "error"
       /\ calls = <<>>

\* C6: for every image handed to CompressedTexImage2DFromImage that is not a
\* Dxt1, Dxt3 or Dxt5 and has non-empty bounds, getCompressedImageInfo
\* returns an error (no crash), and the upload function returns having issued
\* no native call, the context unchanged.
C6_UnrecognizedFormatIsNoOp ==
    ( /\ last.op = "CompressedTexImage2DFromImage"
      /\ last.args.img.kind \notin {"Dxt1", "Dxt3", "Dxt5"}
      /\ ~Empty(last.args.img.Rect) )
    => /\ getCompressedImageInfo(last.args.img).res = "error"
       /\ last.res = "ok"
       /\ calls = <<>>
       /\ ctx = before

C6_Witness ==
    /\ last.op = "CompressedTexImage2DFromImage"
    /\ last.args.img.kind = "RGBA"
    /\ ~Empty(last.args.img.Rect)
    /\ last.args.img.PixLen > 0
    /\ last.res = "ok"
    /\ before.tex.fn = "glTexImage2D"
    /\ ctx = before

\* The block geometry of a block-compressed image: blocks across and down its
\* bounds (cw, ch), the block column and row of its origin (bx, by), the
\* block size (bs), and the tightly packed stride of its bounds.
Blocks(i) ==
    LET f == BlockFormats[i.kind] IN
    [ cw |-> (Dx(i.Rect) + 3) \div 4, ch |-> (Dy(i.Rect) + 3) \div 4,
      bx |-> i.Rect.Min.X \div 4, by |-> i.Rect.Min.Y \div 4,
      bs |-> f.blocksize,
      sub_stride |-> ((Dx(i.Rect) + 3) \div 4) * f.blocksize ]

\* The source buffer holds every block of the image's bounds.
SourceHoldsBounds(i) ==
    LET b == Blocks(i) IN
    /\ (b.bx + b.cw) * b.bs <= i.Stride
    /\ (b.by + b.ch) * i.Stride <= i.PixLen

\* The block-row extraction of the bounds from the source, done by hand:
\* block-row k is the cw * bs bytes at (by + k) * Stride + bx * bs.
ManualExtraction(i) ==
    LET b == Blocks(i) IN
    [ n \in 1..(b.cw * b.ch * b.bs) |->
        LET k == (n - 1) \div (b.cw * b.bs)
            c == (n - 1) % (b.cw * b.bs)
        IN SrcByte((b.by + k) * i.Stride + b.bx * b.bs + c) ]

\* C7: for every Dxt1/Dxt3/Dxt5 image whose tightly packed stride differs
\* from the source stride, at any block-aligned origin and of any height, the
\* buffer getCompressedImageInfo produces holds, for every block-row k of the
\* rectangle (0 .. ceil(h/4)-1), exactly the ceil(w/4) * blocksize source
\* bytes of that block-row, starting at the rectangle's block column and
\* block row in the source: it equals the manual block-row extraction.
C7_RepackIsBlockRowExtraction ==
    ( /\ last.op = "CompressedTexImage2DFromImage"
      /\ last.args.img.kind \in DOMAIN BlockFormats
      /\ ~Empty(last.args.img.Rect)
      /\ Blocks(last.args.img).sub_stride # last.args.img.Stride
      /\ SourceHoldsBounds(last.args.img)
      /\ getCompressedImageInfo(last.args.img).res = "ok" )
    => last.out.pix = ManualExtraction(last.args.img)

\* C8: for every Dxt1/Dxt3/Dxt5 image with non-empty bounds w x h for which
\* getCompressedImageInfo returns without error, on the aliasing path and on
\* the repacking path, the total byte length it reports, which is the size
\* handed to the native compressed upload, is ceil(w/4) * ceil(h/4) *
\* blocksize, and the data pointer addresses the first byte of the rectangle.
C8_CompressedLength ==
    ( /\ last.op = "CompressedTexImage2DFromImage"
      /\ last.args.img.kind \in DOMAIN BlockFormats
      /\ ~Empty(last.args.img.Rect)
      /\ getCompressedImageInfo(last.args.img).res = "ok" )
    => LET i == last.args.img
           b == Blocks(i)
           first == b.by * i.Stride + b.bx * b.bs
       IN
       /\ last.out.Length = b.cw * b.ch * b.bs
       /\ Len(calls) = 1
       /\ calls[1].fn = "glCompressedTexImage2D"
       /\ calls[1].imageSize = b.cw * b.ch * b.bs
       /\ SourceHoldsBounds(i)
            => IF last.out.Data = "Pix" THEN first = 0
               ELSE last.out.pix[1] = SrcByte(first)

\* C9: for every witness whose component type is numeric, sliceAttrib returns
\* stride = the byte size of the whole witness type, and: for a scalar,
\* element count 1 and offset 0; for an array, element count = its length and
\* offset 0; for a struct with field i selected, offset = the byte offset of
\* field i and element count = 1 for a scalar field, the array length for an
\* array field.  The offset is non-zero only for a struct, and dummy_index
\* has no effect on the result for a witness that is not a struct.
C9_AttribLayout ==
    ( /\ last.op \in AttribOps
      /\ Resolves(last.args.dummy, last.args.dummy_index)
      /\ Component(last.args.dummy, last.args.dummy_index) \in NumericKinds )
    => LET t == last.args.dummy
           i == last.args.dummy_index
           d == last.out
       IN
       /\ sliceAttrib(t, i) = [res |-> "ok", data |-> d]
       /\ d.Stride = TypeSize(t)
       /\ t.kind \notin {"array", "struct"} => (d.Elements = 1 /\ d.Offset = 0)
       /\ t.kind = "array" => (d.Elements = t.len /\ d.Offset = 0)
       /\ t.kind = "struct"
            => /\ d.Offset = FieldOffset(t.fields, i + 1)
               /\ d.Elements = IF t.fields[i + 1].kind = "array"
                               THEN t.fields[i + 1].len ELSE 1
       /\ d.Offset # 0 => t.kind = "struct"
       /\ t.kind # "struct"
            => \A j \in 0..MaxFields : sliceAttrib(t, j) = sliceAttrib(t, i)

\* A struct {uint8; [3]float32} with field 1 selected: offset 4, three
\* elements, stride 16.
C9_Witness ==
    /\ last.op = "VertexSlice"
    /\ last.args.dummy.kind = "struct"
    /\ last.args.dummy.fields = << Scalar("uint8"), Array("float32", 3) >>
    /\ last.args.dummy_index = 1
    /\ last.out = [Gltype |-> "FLOAT", Elements |-> 3, Offset |-> 4, Stride |-> 16]
    /\ Len(calls) = 1

\* getImageInfo is reached: the entry point's guard let the image through.
ReachesGetImageInfo ==
    \/ last.op = "TexImage2DFromImage" /\ ~Empty(last.args.img.Rect)
    \/ /\ last.op = "TexSubImage2DFromImage"
       /\ ~DestTooLarge(last.args.dest, last.args.img.Rect)

\* C10: for every recognized uncompressed representation with a non-empty
\* pixel buffer, stride s and per-pixel size e, getImageInfo returns a row
\* length r with r * e = s or, when e does not divide s, aborts, so that the
\* upload function issues no native call; it never returns a truncated row
\* length.  For every representation outside the recognized set it returns
\* format RGBA, type unsigned byte, and a row length r with r * 4 = the
\* stride of the synthesized RGBA buffer.
C10_RowLength ==
    ReachesGetImageInfo
    => LET i == last.args.img IN
       IF i.kind \in DOMAIN PixelFormats
       THEN i.PixLen > 0
            => LET e == PixelFormats[i.kind].epp IN
               IF i.Stride % e = 0
               THEN last.res = "ok" /\ last.out.RowLength * e = i.Stride
               ELSE last.res = "panic" /\ calls = <<>>
       ELSE /\ last.res = "ok"
            /\ last.out.Format = "RGBA"
            /\ last.out.Type = "UNSIGNED_BYTE"
            /\ last.out.RowLength * 4 = NewRGBA(i.Rect).Stride

-----------------------------------------------------------------------------

Init ==
    /\ ctx \in Contexts
    /\ before = ctx
    /\ calls = <<>>
    /\ last = NoCall

Next ==
    \/ TexImage2DFromImage
    \/ TexSubImage2DFromImage
    \/ CompressedTexImage2DFromImage
    \/ BufferData
    \/ BufferSubData
    \/ VertexAttribSlice
    \/ VertexSlice
    \/ NormalSlice
    \/ ColorSlice
    \/ TexCoordSlice

Spec == Init /\ [][Next]_vars

====
